---------------------------- MODULE Spec2Model ----------------------------
(***************************************************************************)
(* Block header codec, proof verification, chain length and stake          *)
(* certificates of chain-impl-mockchain (block/header.rs, certificate.rs). *)
(*                                                                         *)
(* Representation.  A byte is a number in 0..255 and a buffer is a         *)
(* sequence of bytes.  A u16 is a number in 0..65535.  A u32 is a pair     *)
(* <<hi, lo>> of 16-bit halves (its value is hi * 65536 + lo), so that the *)
(* whole 32-bit range, 2^32 - 1 included, is represented exactly.  Hashes, *)
(* public keys, signatures and VRF proofs are the fixed-width byte strings *)
(* their Rust types wrap.                                                  *)
(***************************************************************************)
EXTENDS Integers, Sequences, FiniteSets, TLC

VARIABLES
    op,       \* the operation that produced the current state
    hdr,      \* the Header in hand (header specification)
    buf,      \* the bytes written by the last serialize
    wire,     \* the length-framed bytes (HeaderRaw) handed to deserialize
    dec,      \* the result of the last read / deserialize
    vres,     \* the outcome of the last verify_proof
    prov,     \* how the header in hand was produced (signing key, tampering)
    cl,       \* the ChainLength in hand (chain-length specification)
    clres,    \* the outcome of the last ChainLength::next
    steps,    \* how many times ChainLength::next was applied
    cert,     \* the certificate payload in hand (certificate specification)
    skey,     \* the private key in hand
    message,  \* the Message returned by the last make_certificate
    damage,   \* what happened to the bytes in buf on their way (decode specification)
    reenc,    \* the bytes written by re-encoding the decoded Header
    peer,     \* a second Header, compared with hdr (identity specification)
    ids,      \* the identities computed for hdr and peer
    subscriptions,  \* the shared map SubscriptionId -> sender (network specification)
    rx_open,  \* the channels whose receiving end is alive
    inbox,    \* what each channel has been sent
    lock,     \* the RwLock around the map: the tasks reading, the tasks writing
    msg_box,  \* the broadcast messages waiting in subscription_msg_box
    task,     \* the broadcast task: its position, message, snapshot and index
    hist      \* what has happened to the map: ids added, sends failed, ids removed

\* the variables of the specifications that follow the first three
netvars == <<subscriptions, rx_open, inbox, lock, msg_box, task, hist>>

extra == <<damage, reenc, peer, ids, netvars>>

vars == <<op, hdr, buf, wire, dec, vres, prov, cl, clres, steps, cert, skey, message, extra>>

-----------------------------------------------------------------------------
(* Bounds of the model.                                                    *)

\* u32 header fields are drawn from the samples 0..MaxIntSample
MaxIntSample == 1

\* ChainLength::next is applied at most MaxSteps times in a row
MaxSteps == 2

-----------------------------------------------------------------------------
(* Fixed widths of the wire format.                                        *)

HASH_SIZE == 32
PUBLIC_KEY_SIZE == 32
SIGNATURE_SIZE == 64
VERIFIED_RANDOM_SIZE == 96
U16_MAX == 65535

-----------------------------------------------------------------------------
(* Results and errors.                                                     *)

Ok(v, pos) == [ok |-> TRUE, val |-> v, pos |-> pos]
Err(e) == [ok |-> FALSE, err |-> e]

NotEnoughBytes(have, need) == [kind |-> "NotEnoughBytes", have |-> have, need |-> need]
UnconsumedData(left) == [kind |-> "UnconsumedData", left |-> left]
UnknownTag(tag) == [kind |-> "UnknownTag", tag |-> tag]
StructureInvalid(what) == [kind |-> "StructureInvalid", what |-> what]
\* std::io::Error of kind InvalidData wrapping the ReadError that caused it
InvalidData(cause) == [kind |-> "InvalidData", cause |-> cause]
\* std::io::Error of kind UnexpectedEof (a short read from a reader)
UnexpectedEof == [kind |-> "UnexpectedEof"]

NoResult == [ok |-> FALSE, err |-> [kind |-> "none"]]

-----------------------------------------------------------------------------
(* chain_core::packer::Codec and chain_core::mempack::ReadBuf: integers    *)
(* are written and read big-endian; a read past the end of the buffer is   *)
(* NotEnoughBytes(bytes left, bytes needed).                               *)

put_u16(v) == <<v \div 256, v % 256>>

put_u32(v) == put_u16(v[1]) \o put_u16(v[2])

get_slice(b, pos, n) ==
    IF pos + n > Len(b)
    THEN Err(NotEnoughBytes(Len(b) - pos, n))
    ELSE Ok(SubSeq(b, pos + 1, pos + n), pos + n)

get_u16(b, pos) ==
    LET r == get_slice(b, pos, 2)
    IN  IF ~r.ok THEN r ELSE Ok(r.val[1] * 256 + r.val[2], r.pos)

get_u32(b, pos) ==
    LET r == get_slice(b, pos, 4)
    IN  IF ~r.ok THEN r
        ELSE Ok(<<r.val[1] * 256 + r.val[2], r.val[3] * 256 + r.val[4]>>, r.pos)

expect_end(b, pos) ==
    IF pos = Len(b) THEN Ok(<<>>, pos) ELSE Err(UnconsumedData(Len(b) - pos))

-----------------------------------------------------------------------------
(* block::version: the 16-bit tag and the versions it stands for.          *)

Supported(bv) == <<"Supported", bv>>
Unsupported(raw) == <<"Unsupported", raw>>

AnyBlockVersion_from_u16(n) ==
    CASE n = 0 -> Supported("Genesis")
      [] n = 1 -> Supported("Ed25519Signed")
      [] n = 2 -> Supported("KesVrfproof")
      [] OTHER -> Unsupported(n)

AnyBlockVersion_into_u16(v) ==
    CASE v = Supported("Genesis") -> 0
      [] v = Supported("Ed25519Signed") -> 1
      [] v = Supported("KesVrfproof") -> 2
      [] OTHER -> v[2]

-----------------------------------------------------------------------------
(* crate::key and chain_crypto.  Keys and signatures are byte strings.     *)
(* The signature scheme is idealised: Sign is a deterministic function of  *)
(* the secret key and the message, and a signature verifies under a public *)
(* key exactly when it is the signature of the message by the secret key   *)
(* of that public key.                                                     *)

SecretKeys == {1, 2}

to_public(sk) == [i \in 1..PUBLIC_KEY_SIZE |-> (sk * 17 + i) % 256]

RECURSIVE FoldAt(_, _, _)
FoldAt(msg, i, w) ==
    IF i > Len(msg) THEN 0 ELSE w * msg[i] + FoldAt(msg, i + SIGNATURE_SIZE, w + 2)

Sign(sk, msg) ==
    [i \in 1..SIGNATURE_SIZE |-> (sk * 31 + Len(msg) + FoldAt(msg, i, 1)) % 256]

verify_slice(sig, pk, msg) ==
    IF \E sk \in SecretKeys : to_public(sk) = pk /\ Sign(sk, msg) = sig
    THEN "Success"
    ELSE "Failed"

serialize_public_key(pk) == pk

serialize_signature(sig) == sig

deserialize_public_key(b, pos) == get_slice(b, pos, PUBLIC_KEY_SIZE)

deserialize_signature(b, pos) == get_slice(b, pos, SIGNATURE_SIZE)

Hash_read(b, pos) == get_slice(b, pos, HASH_SIZE)

\* VerifiedRandom::from_bytes_unverified: the two scalars of the proof must
\* be canonical (here: their most significant byte is below 16).
VrfWellFormed(bytes) == bytes[64] < 16 /\ bytes[VERIFIED_RANDOM_SIZE] < 16

VerifiedRandom_to_bytes(vrf) == vrf

VerifiedRandom_from_bytes_unverified(b, pos) ==
    LET r == get_slice(b, pos, VERIFIED_RANDOM_SIZE)
    IN  IF ~r.ok THEN r
        ELSE IF VrfWellFormed(r.val) THEN r
        ELSE Err(StructureInvalid("VRF Proof"))

-----------------------------------------------------------------------------
(* block/header.rs: the data model.                                        *)
(*   Common == [any_block_version, block_date: [epoch, slot_id],           *)
(*              block_content_size, block_content_hash,                    *)
(*              block_parent_hash, chain_length]                           *)
(*   Proof  == None | Bft(leader_id, signature)                            *)
(*           | GenesisPraos(genesis_praos_id, vrf_proof, kes_proof)        *)
(*   Header == [common, proof]                                             *)

ProofNone == [kind |-> "None"]

ProofBft(leader_id, signature) ==
    [kind |-> "Bft", leader_id |-> leader_id, signature |-> signature]

ProofGenesisPraos(id, vrf, kes) ==
    [kind |-> "GenesisPraos", genesis_praos_id |-> id, vrf_proof |-> vrf, kes_proof |-> kes]

Header(common, proof) == [common |-> common, proof |-> proof]

-----------------------------------------------------------------------------
(* Serialization.                                                          *)

Common_serialize_swapped(c) ==
    put_u16(AnyBlockVersion_into_u16(c.any_block_version))
        \o put_u32(c.block_content_size)
        \o put_u32(c.block_date.slot_id)
        \o put_u32(c.block_date.epoch)
        \o put_u32(c.chain_length)
        \o c.block_content_hash
        \o c.block_parent_hash

Common_serialize(c) ==
    put_u16(AnyBlockVersion_into_u16(c.any_block_version))
        \o put_u32(c.block_content_size)
        \o put_u32(c.block_date.epoch)
        \o put_u32(c.block_date.slot_id)
        \o put_u32(c.chain_length)
        \o c.block_content_hash
        \o c.block_parent_hash

Header_serialize(h) ==
    Common_serialize(h.common) \o
        CASE h.proof.kind = "None" -> <<>>
          [] h.proof.kind = "Bft" ->
                serialize_public_key(h.proof.leader_id)
                    \o serialize_signature(h.proof.signature)
          [] h.proof.kind = "GenesisPraos" ->
                h.proof.genesis_praos_id
                    \o VerifiedRandom_to_bytes(h.proof.vrf_proof)
                    \o serialize_signature(h.proof.kes_proof)

-----------------------------------------------------------------------------
(* Deserialization.  Every reader takes the buffer and the number of bytes *)
(* already consumed and returns Ok(value, bytes consumed) or Err(error).   *)

Common_read(b, p0) ==
    LET r1 == get_u16(b, p0) IN
    IF ~r1.ok THEN r1 ELSE
    LET r2 == get_u32(b, r1.pos) IN
    IF ~r2.ok THEN r2 ELSE
    LET r3 == get_u32(b, r2.pos) IN
    IF ~r3.ok THEN r3 ELSE
    LET r4 == get_u32(b, r3.pos) IN
    IF ~r4.ok THEN r4 ELSE
    LET r5 == get_u32(b, r4.pos) IN
    IF ~r5.ok THEN r5 ELSE
    LET r6 == Hash_read(b, r5.pos) IN
    IF ~r6.ok THEN r6 ELSE
    LET r7 == Hash_read(b, r6.pos) IN
    IF ~r7.ok THEN r7 ELSE
    Ok([any_block_version |-> AnyBlockVersion_from_u16(r1.val),
        block_content_size |-> r2.val,
        block_date |-> [epoch |-> r3.val, slot_id |-> r4.val],
        chain_length |-> r5.val,
        block_content_hash |-> r6.val,
        block_parent_hash |-> r7.val], r7.pos)

\* the Ed25519Signed arm of Header::read
Header_read_Bft(b, common, p0) ==
    LET r1 == deserialize_public_key(b, p0) IN
    IF ~r1.ok THEN r1 ELSE
    LET r2 == deserialize_signature(b, r1.pos) IN
    IF ~r2.ok THEN r2 ELSE
    Ok(Header(common, ProofBft(r1.val, r2.val)), r2.pos)

Header_read_GenesisPraos_unchecked(b, common, p0) ==
    LET r1 == Hash_read(b, p0) IN
    IF ~r1.ok THEN r1 ELSE
    LET r2 == get_slice(b, r1.pos, VERIFIED_RANDOM_SIZE) IN
    IF ~r2.ok THEN r2 ELSE
    LET r3 == deserialize_signature(b, r2.pos) IN
    IF ~r3.ok THEN r3 ELSE
    Ok(Header(common, ProofGenesisPraos(r1.val, r2.val, r3.val)), r3.pos)

\* the KesVrfproof arm of Header::read
Header_read_GenesisPraos(b, common, p0) ==
    LET r1 == Hash_read(b, p0) IN
    IF ~r1.ok THEN r1 ELSE
    LET r2 == VerifiedRandom_from_bytes_unverified(b, r1.pos) IN
    IF ~r2.ok THEN r2 ELSE
    LET r3 == deserialize_signature(b, r2.pos) IN
    IF ~r3.ok THEN r3 ELSE
    Ok(Header(common, ProofGenesisPraos(r1.val, r2.val, r3.val)), r3.pos)

Header_read_Unsupported_truncating(version) ==
    Err(UnknownTag(<<0, version % 256>>))

\* the Unsupported arm of Header::read: `version as u32`
Header_read_Unsupported(version) ==
    Err(UnknownTag(<<0, version>>))

Header_read(b, p0) ==
    LET c == Common_read(b, p0) IN
    IF ~c.ok THEN c ELSE
    LET v == c.val.any_block_version IN
    CASE v = Supported("Genesis") -> Ok(Header(c.val, ProofNone), c.pos)
      [] v = Supported("Ed25519Signed") -> Header_read_Bft(b, c.val, c.pos)
      [] v = Supported("KesVrfproof") -> Header_read_GenesisPraos(b, c.val, c.pos)
      [] OTHER -> Header_read_Unsupported(v[2])

\* chain_core::mempack::read_from_raw: read a value from a whole buffer; a
\* ReadError, or bytes left over after the value, is an InvalidData error.
read_from_raw(b) ==
    LET r == Header_read(b, 0) IN
    IF ~r.ok THEN Err(InvalidData(r.err)) ELSE
    LET e == expect_end(b, r.pos) IN
    IF ~e.ok THEN Err(InvalidData(e.err)) ELSE r

\* HeaderRaw: the header bytes behind a 16-bit length prefix
HeaderRaw_serialize(raw) == put_u16(Len(raw)) \o raw

HeaderRaw_deserialize(w) ==
    LET n == get_u16(w, 0) IN
    IF ~n.ok THEN Err(UnexpectedEof) ELSE
    LET r == get_slice(w, n.pos, n.val) IN
    IF ~r.ok THEN Err(UnexpectedEof) ELSE r

Header_deserialize(w) ==
    LET raw == HeaderRaw_deserialize(w) IN
    IF ~raw.ok THEN raw ELSE read_from_raw(raw.val)

-----------------------------------------------------------------------------
(* Proof verification.                                                     *)

\* crate::key::verify_signature: verify over the serialized data
verify_signature(sig, pk, common) == verify_slice(sig, pk, Common_serialize(common))

verify_proof_unchecked_bft(h) ==
    CASE h.proof.kind = "None" -> "Success"
      [] h.proof.kind = "Bft" -> "Success"
      [] h.proof.kind = "GenesisPraos" -> "Panic"

verify_proof_genesis_position(h) ==
    CASE h.proof.kind = "None" ->
            IF h.common.chain_length = <<0, 0>> THEN "Success" ELSE "Failed"
      [] h.proof.kind = "Bft" ->
            verify_signature(h.proof.signature, h.proof.leader_id, h.common)
      [] h.proof.kind = "GenesisPraos" -> "Panic"

\* Header::verify_proof.  The GenesisPraos arm is unimplemented!(): the call
\* panics instead of returning a Verification.
verify_proof(h) ==
    CASE h.proof.kind = "None" -> "Success"
      [] h.proof.kind = "Bft" ->
            verify_signature(h.proof.signature, h.proof.leader_id, h.common)
      [] h.proof.kind = "GenesisPraos" -> "Panic"

-----------------------------------------------------------------------------
(* Genesis-Praos verification as section 4.2 of the specification states   *)
(* it: the identifier resolves in the key registry, the VRF proof verifies *)
(* under the resolved VRF key, the KES signature verifies under the        *)
(* resolved KES key.  header.rs implements none of the three.              *)

vrf_evaluate(sk, msg) ==
    [i \in 1..VERIFIED_RANDOM_SIZE |->
        IF i <= SIGNATURE_SIZE THEN Sign(sk, msg)[i] % (IF i = SIGNATURE_SIZE THEN 16 ELSE 256)
        ELSE (sk + i) % 16]

vrf_verify(proof, pk, msg) ==
    IF \E sk \in SecretKeys : to_public(sk) = pk /\ vrf_evaluate(sk, msg) = proof
    THEN "Success"
    ELSE "Failed"

RegisteredId == [i \in 1..HASH_SIZE |-> i]

UnregisteredId == [i \in 1..HASH_SIZE |-> (200 + 3 * i) % 256]

registry_lookup(id) ==
    IF id = RegisteredId
    THEN [found |-> TRUE, vrf_public_key |-> to_public(2), kes_public_key |-> to_public(1)]
    ELSE [found |-> FALSE]

PraosIdentityResolved(h) == registry_lookup(h.proof.genesis_praos_id).found

PraosVrfValid(h) ==
    LET keys == registry_lookup(h.proof.genesis_praos_id)
    IN  keys.found /\
        vrf_verify(h.proof.vrf_proof, keys.vrf_public_key, Common_serialize(h.common)) = "Success"

PraosKesValid(h) ==
    LET keys == registry_lookup(h.proof.genesis_praos_id)
    IN  keys.found /\
        verify_slice(h.proof.kes_proof, keys.kes_public_key, Common_serialize(h.common)) = "Success"

PraosAllValid(h) == PraosIdentityResolved(h) /\ PraosVrfValid(h) /\ PraosKesValid(h)

-----------------------------------------------------------------------------
(* The headers the header specification starts from.                       *)

U32Val(i) ==
    CASE i = 0 -> <<0, 0>>
      [] i = 1 -> <<258, 772>>
      [] i = 2 -> <<U16_MAX, U16_MAX>>
      [] OTHER -> <<i, 257 * i>>

U32Vals == {U32Val(i) : i \in 0..MaxIntSample}

HashVals == {RegisteredId, UnregisteredId}

VersionVals ==
    {Supported("Genesis"), Supported("Ed25519Signed"), Supported("KesVrfproof"),
     Unsupported(99), Unsupported(258)}

Commons ==
    [any_block_version : VersionVals,
     block_date : [epoch : U32Vals, slot_id : U32Vals],
     block_content_size : U32Vals,
     block_content_hash : HashVals,
     block_parent_hash : HashVals,
     chain_length : U32Vals]

\* the message the test generators sign
TestMessage == <<0, 1, 2, 3>>

Proofs ==
    {ProofNone,
     ProofBft(to_public(1), Sign(1, TestMessage)),
     ProofBft(to_public(2), [i \in 1..SIGNATURE_SIZE |-> 255 - i]),
     ProofGenesisPraos(RegisteredId, vrf_evaluate(1, TestMessage), Sign(1, TestMessage)),
     ProofGenesisPraos(UnregisteredId, vrf_evaluate(2, TestMessage), Sign(2, TestMessage))}

\* the proof variant a version tag stands for
ProofKindOf(v) ==
    CASE v = Supported("Genesis") -> "None"
      [] v = Supported("Ed25519Signed") -> "Bft"
      [] v = Supported("KesVrfproof") -> "GenesisPraos"
      [] OTHER -> "unsupported"

ValidHeader(h) == h.proof.kind = ProofKindOf(h.common.any_block_version)

NoProvenance == [by |-> "init", sk |-> 0, tampered |-> "no"]

NoHeader == Header([any_block_version |-> Supported("Genesis")], ProofNone)

NoCert == [kind |-> "none"]

NoMessage == [case |-> "none"]

NoIds == [none |-> TRUE]

NoEntries == [i \in {} |-> 0]

NoBroadcast == [kind |-> "none", body |-> 0]

\* run before any message: Subscriptions::default() behind a free RwLock
NetInit ==
    /\ subscriptions = NoEntries
    /\ rx_open = {}
    /\ inbox = NoEntries
    /\ lock = [readers |-> {}, writers |-> {}]
    /\ msg_box = <<>>
    /\ task = [pc |-> "idle", msg |-> NoBroadcast, col |-> <<>>, at |-> 0]
    /\ hist = [added |-> {}, failed |-> {}, removed |-> {}, published |-> 0]

\* the variables in extra when their specification is not the one running
ExtraInit ==
    /\ damage = "none"
    /\ reenc = <<>>
    /\ peer = NoHeader
    /\ ids = NoIds
    /\ NetInit

-----------------------------------------------------------------------------
(* Header specification: a header is built (or signed by a producer, or    *)
(* tampered with after signing), serialized, framed, decoded and verified. *)

InitHeader ==
    /\ op = "init"
    /\ ExtraInit
    /\ hdr \in {Header(c, p) : c \in Commons, p \in Proofs}
    /\ buf = <<>>
    /\ wire = <<>>
    /\ dec = NoResult
    /\ vres = "none"
    /\ prov = NoProvenance
    /\ cl = <<0, 0>>
    /\ clres = NoResult
    /\ steps = 0
    /\ cert = NoCert
    /\ skey = 0
    /\ message = NoMessage

OtherUnchanged == UNCHANGED <<cl, clres, steps, cert, skey, message, extra>>

\* a BFT leader signs the Common of the header in hand
SignBft(sk) ==
    /\ op = "init"
    /\ hdr.proof.kind = "None"
    /\ hdr.common.any_block_version = Supported("Ed25519Signed")
    /\ hdr' = Header(hdr.common,
                     ProofBft(to_public(sk), Sign(sk, Common_serialize(hdr.common))))
    /\ prov' = [by |-> "bft", sk |-> sk, tampered |-> "no"]
    /\ op' = "sign"
    /\ UNCHANGED <<buf, wire, dec, vres>>
    /\ OtherUnchanged

\* a Genesis-Praos leader builds the proof over the Common of the header in hand
SignGenesisPraos(id) ==
    /\ op = "init"
    /\ hdr.proof.kind = "None"
    /\ hdr.common.any_block_version = Supported("KesVrfproof")
    /\ hdr' = Header(hdr.common,
                     ProofGenesisPraos(id,
                                       vrf_evaluate(2, Common_serialize(hdr.common)),
                                       Sign(1, Common_serialize(hdr.common))))
    /\ prov' = [by |-> "praos", sk |-> 1, tampered |-> "no"]
    /\ op' = "sign"
    /\ UNCHANGED <<buf, wire, dec, vres>>
    /\ OtherUnchanged

\* one field of Common is changed after signing
TamperCommon ==
    /\ op = "sign"
    /\ prov.by = "bft"
    /\ \E c \in Commons :
        /\ Cardinality({f \in DOMAIN c : c[f] # hdr.common[f]}) = 1
        /\ hdr' = Header(c, hdr.proof)
    /\ prov' = [prov EXCEPT !.tampered = "common"]
    /\ op' = "tamper"
    /\ UNCHANGED <<buf, wire, dec, vres>>
    /\ OtherUnchanged

\* one bit of the signature is flipped after signing
TamperSignature(i, bit) ==
    /\ op = "sign"
    /\ prov.by = "bft"
    /\ LET old == hdr.proof.signature[i]
           new == IF (old \div bit) % 2 = 1 THEN old - bit ELSE old + bit
       IN  hdr' = Header(hdr.common,
                         ProofBft(hdr.proof.leader_id,
                                  [hdr.proof.signature EXCEPT ![i] = new]))
    /\ prov' = [prov EXCEPT !.tampered = "signature"]
    /\ op' = "tamper"
    /\ UNCHANGED <<buf, wire, dec, vres>>
    /\ OtherUnchanged

SerializeHeader ==
    /\ op \in {"init", "sign"}
    /\ buf' = Header_serialize(hdr)
    /\ op' = "serialize"
    /\ UNCHANGED <<hdr, wire, dec, vres, prov>>
    /\ OtherUnchanged

ReadHeader ==
    /\ op = "serialize"
    /\ dec' = Header_read(buf, 0)
    /\ op' = "read"
    /\ UNCHANGED <<hdr, buf, wire, vres, prov>>
    /\ OtherUnchanged

\* Header::to_raw and the serialization of the HeaderRaw
ToRaw ==
    /\ op = "serialize"
    /\ wire' = HeaderRaw_serialize(buf)
    /\ op' = "to_raw"
    /\ UNCHANGED <<hdr, buf, dec, vres, prov>>
    /\ OtherUnchanged

DeserializeHeader ==
    /\ op = "to_raw"
    /\ dec' = Header_deserialize(wire)
    /\ op' = "deserialize"
    /\ UNCHANGED <<hdr, buf, wire, vres, prov>>
    /\ OtherUnchanged

VerifyProof ==
    /\ op \in {"init", "sign", "tamper"}
    /\ vres' = verify_proof(hdr)
    /\ op' = "verify_proof"
    /\ UNCHANGED <<hdr, buf, wire, dec, prov>>
    /\ OtherUnchanged

NextHeader ==
    \/ \E sk \in SecretKeys : SignBft(sk)
    \/ \E id \in HashVals : SignGenesisPraos(id)
    \/ TamperCommon
    \/ \E i \in {1, SIGNATURE_SIZE}, bit \in {1, 128} : TamperSignature(i, bit)
    \/ SerializeHeader
    \/ ReadHeader
    \/ ToRaw
    \/ DeserializeHeader
    \/ VerifyProof

Spec == InitHeader /\ [][NextHeader]_vars

-----------------------------------------------------------------------------
(* C1: for every valid Header h (its proof variant is the one its version  *)
(* tag stands for), decoding the bytes produced by encoding h succeeds and *)
(* yields a Header equal to h, through Header::read (which then has        *)
(* consumed the whole buffer) and through Header::deserialize alike.       *)
C1_RoundTrip ==
    /\ (op = "read" /\ ValidHeader(hdr)) =>
            (dec.ok /\ dec.val = hdr /\ dec.pos = Len(buf))
    /\ (op = "deserialize" /\ ValidHeader(hdr)) =>
            (dec.ok /\ dec.val = hdr)

C1_Witness ==
    /\ op = "read"
    /\ ValidHeader(hdr)
    /\ hdr.proof.kind = "GenesisPraos"
    /\ hdr.common.block_date.epoch # hdr.common.block_date.slot_id
    /\ hdr.common.block_content_hash # hdr.common.block_parent_hash
    /\ dec.ok
    /\ dec.val = hdr

\* the version tag is a supported one and the proof is of another variant
Mismatched(h) ==
    /\ ProofKindOf(h.common.any_block_version) # "unsupported"
    /\ h.proof.kind # ProofKindOf(h.common.any_block_version)

(* C2: decoding a header byte stream whose version tag and proof trailer  *)
(* do not pair up always fails with a structural error, through            *)
(* Header::read and through Header::deserialize alike; it never succeeds   *)
(* with a Header whose proof was coerced to the variant of the tag or with *)
(* the extra trailer bytes ignored.                                        *)
C2_MismatchFails ==
    (op \in {"read", "deserialize"} /\ Mismatched(hdr)) =>
        /\ ~dec.ok
        /\ op = "read" =>
                dec.err.kind \in {"NotEnoughBytes", "StructureInvalid"}
        /\ op = "deserialize" =>
                /\ dec.err.kind = "InvalidData"
                /\ dec.err.cause.kind \in
                        {"NotEnoughBytes", "UnconsumedData", "StructureInvalid"}

(* C3: decoding a header whose 16-bit version tag is a value v other than  *)
(* the three recognized ones fails with UnknownTag carrying exactly v (as  *)
(* a u32) and returns no Header; Header::deserialize reports the same      *)
(* error wrapped as InvalidData.                                           *)
C3_UnknownTag ==
    LET tag == hdr.common.any_block_version
        v == tag[2]
    IN  (op \in {"read", "deserialize"} /\ tag[1] = "Unsupported") =>
            /\ v \in 3..U16_MAX
            /\ op = "read" => (~dec.ok /\ dec.err = UnknownTag(<<0, v>>))
            /\ op = "deserialize" => (~dec.ok /\ dec.err = InvalidData(UnknownTag(<<0, v>>)))

C3_Witness ==
    /\ op = "read"
    /\ hdr.common.any_block_version = Unsupported(258)
    /\ hdr.proof.kind = "Bft"
    /\ ~dec.ok
    /\ dec.err = UnknownTag(<<0, 258>>)

\* the signature of the proof is the signature of the canonical bytes of
\* Common by the secret key of the proof's own leader_id
SignedByLeader(h) ==
    \E sk \in SecretKeys :
        /\ to_public(sk) = h.proof.leader_id
        /\ h.proof.signature = Sign(sk, Common_serialize(h.common))

(* C4: for a Header with a Bft proof, verify_proof returns Success if and  *)
(* only if the signature verifies against the proof's own leader_id over   *)
(* the canonical bytes of Common; a header signed over its Common with the *)
(* private key of leader_id verifies, and changing one field of Common or  *)
(* one bit of the signature afterwards makes verify_proof return Failed.   *)
C4_BftValidity ==
    (op = "verify_proof" /\ hdr.proof.kind = "Bft") =>
        /\ vres \in {"Success", "Failed"}
        /\ vres = "Success" <=> SignedByLeader(hdr)
        /\ (prov.by = "bft" /\ prov.tampered = "no") => vres = "Success"
        /\ (prov.by = "bft" /\ prov.tampered # "no") => vres = "Failed"

C4_Witness ==
    /\ op = "verify_proof"
    /\ hdr.proof.kind = "Bft"
    /\ prov.by = "bft"
    /\ prov.tampered = "no"
    /\ vres = "Success"

(* C5: for a Header with a GenesisPraos proof, verify_proof returns        *)
(* Success only when praos_id resolves to a registered key pair, the VRF   *)
(* proof verifies against the resolved VRF key and the KES signature       *)
(* verifies against the resolved KES key; if any of the three fails,       *)
(* verify_proof returns Failed.                                            *)
C5_PraosValidity ==
    (op = "verify_proof" /\ hdr.proof.kind = "GenesisPraos") =>
        /\ vres = "Success" => PraosAllValid(hdr)
        /\ ~PraosAllValid(hdr) => vres = "Failed"

(* C6: verify_proof returns a two-valued outcome (Success or Failed) for   *)
(* every Header, whatever its proof variant; it never aborts instead of    *)
(* returning, and it leaves the Header unchanged.                          *)
C6_TwoValued ==
    op = "verify_proof" => vres \in {"Success", "Failed"}

(* C7: for a Header whose proof is None, verify_proof returns Success for  *)
(* every value of Common, whatever the chain length, block date, parent    *)
(* hash and version tag.                                                   *)
C7_NoneAlwaysValid ==
    (op = "verify_proof" /\ hdr.proof.kind = "None") => vres = "Success"

C7_Witness ==
    /\ op = "verify_proof"
    /\ hdr.proof.kind = "None"
    /\ hdr.common.chain_length = <<258, 772>>
    /\ hdr.common.any_block_version = Supported("Ed25519Signed")
    /\ hdr.common.block_parent_hash = UnregisteredId
    /\ vres = "Success"

-----------------------------------------------------------------------------
(* ChainLength.  `self.0 + 1` on a u32: with overflow checks compiled in   *)
(* (the debug profile) the addition panics at u32::MAX, without them (the  *)
(* release profile) it wraps to 0.                                         *)

U32_MAX == <<U16_MAX, U16_MAX>>

\* n + 1 modulo 2^32 on the <<hi, lo>> representation
U32_wrapping_succ(n) ==
    IF n[2] = U16_MAX THEN <<(n[1] + 1) % (U16_MAX + 1), 0>> ELSE <<n[1], n[2] + 1>>

Panic(what) == [kind |-> "Panic", what |-> what]

ChainLength_next(n, overflow_checks) ==
    IF n = U32_MAX /\ overflow_checks
    THEN Err(Panic("attempt to add with overflow"))
    ELSE Ok(U32_wrapping_succ(n), 0)

ChainLengthVals ==
    {<<hi, lo>> : hi \in {0, 1, 255, U16_MAX - 1, U16_MAX},
                  lo \in {0, 1, 2, 255, 256, U16_MAX - 2, U16_MAX - 1, U16_MAX}}

InitChain ==
    /\ op = "init"
    /\ ExtraInit
    /\ cl \in ChainLengthVals
    /\ clres = NoResult
    /\ steps = 0
    /\ hdr = NoHeader
    /\ buf = <<>>
    /\ wire = <<>>
    /\ dec = NoResult
    /\ vres = "none"
    /\ prov = NoProvenance
    /\ cert = NoCert
    /\ skey = 0
    /\ message = NoMessage

\* ChainLength::next on the chain length in hand, in a build with or
\* without overflow checks
ChainNext(overflow_checks) ==
    /\ op \in {"init", "advance"}
    /\ steps < MaxSteps
    /\ clres' = ChainLength_next(cl, overflow_checks)
    /\ steps' = steps + 1
    /\ op' = "next"
    /\ UNCHANGED <<cl, hdr, buf, wire, dec, vres, prov, cert, skey, message, extra>>

\* the child's chain length becomes the chain length in hand
ChainAdvance ==
    /\ op = "next"
    /\ clres.ok
    /\ cl' = clres.val
    /\ clres' = NoResult
    /\ op' = "advance"
    /\ UNCHANGED <<steps, hdr, buf, wire, dec, vres, prov, cert, skey, message, extra>>

NextChain ==
    \/ \E overflow_checks \in BOOLEAN : ChainNext(overflow_checks)
    \/ ChainAdvance

SpecChain == InitChain /\ [][NextChain]_vars

(* C8: ChainLength::next on a value n yields n + 1 for every 32-bit n      *)
(* below the maximum, and at the maximum (2^32 - 1) it has one outcome,    *)
(* the same in every build of the program.                                 *)
C8_NextSpecified ==
    op = "next" =>
        /\ cl # U32_MAX =>
                /\ clres.ok
                /\ clres.val # <<0, 0>>
                /\ IF cl[2] = U16_MAX
                   THEN clres.val = <<cl[1] + 1, 0>>
                   ELSE clres.val = <<cl[1], cl[2] + 1>>
        /\ \A overflow_checks \in BOOLEAN : ChainLength_next(cl, overflow_checks) = clres

-----------------------------------------------------------------------------
(* certificate.rs.  A payload is a record tagged with its type.  Stake key *)
(* and stake pool identifiers are public keys, written as their bytes.     *)

StakeKeyId_serialize(id) == serialize_public_key(id)

StakePoolId_serialize(id) == serialize_public_key(id)

\* a read from a reader: a short read is an UnexpectedEof I/O error
StakeKeyId_deserialize(b, pos) ==
    LET r == get_slice(b, pos, PUBLIC_KEY_SIZE)
    IN  IF ~r.ok THEN Err(UnexpectedEof) ELSE r

StakePoolId_deserialize(b, pos) ==
    LET r == get_slice(b, pos, PUBLIC_KEY_SIZE)
    IN  IF ~r.ok THEN Err(UnexpectedEof) ELSE r

StakeKeyRegistration(stake_key_id) ==
    [kind |-> "StakeKeyRegistration", stake_key_id |-> stake_key_id]

StakeKeyDeregistration(stake_key_id) ==
    [kind |-> "StakeKeyDeregistration", stake_key_id |-> stake_key_id]

StakeDelegation(stake_key_id, pool_id) ==
    [kind |-> "StakeDelegation", stake_key_id |-> stake_key_id, pool_id |-> pool_id]

StakePoolRegistration(pool_id) ==
    [kind |-> "StakePoolRegistration", pool_id |-> pool_id]

StakePoolRetirement(pool_id) ==
    [kind |-> "StakePoolRetirement", pool_id |-> pool_id]

StakeKeyRegistration_serialize(p) == StakeKeyId_serialize(p.stake_key_id)

StakeKeyRegistration_deserialize(b) ==
    LET r1 == StakeKeyId_deserialize(b, 0) IN
    IF ~r1.ok THEN r1 ELSE Ok(StakeKeyRegistration(r1.val), r1.pos)

StakeKeyDeregistration_serialize(p) == StakeKeyId_serialize(p.stake_key_id)

StakeKeyDeregistration_deserialize(b) ==
    LET r1 == StakeKeyId_deserialize(b, 0) IN
    IF ~r1.ok THEN r1 ELSE Ok(StakeKeyDeregistration(r1.val), r1.pos)

StakeDelegation_serialize(p) ==
    StakeKeyId_serialize(p.stake_key_id) \o StakePoolId_serialize(p.pool_id)

StakeDelegation_deserialize_pool_first(b) ==
    LET r1 == StakePoolId_deserialize(b, 0) IN
    IF ~r1.ok THEN r1 ELSE
    LET r2 == StakeKeyId_deserialize(b, r1.pos) IN
    IF ~r2.ok THEN r2 ELSE Ok(StakeDelegation(r2.val, r1.val), r2.pos)

StakeDelegation_deserialize(b) ==
    LET r1 == StakeKeyId_deserialize(b, 0) IN
    IF ~r1.ok THEN r1 ELSE
    LET r2 == StakePoolId_deserialize(b, r1.pos) IN
    IF ~r2.ok THEN r2 ELSE Ok(StakeDelegation(r1.val, r2.val), r2.pos)

StakePoolRegistration_serialize(p) == StakePoolId_serialize(p.pool_id)

StakePoolRegistration_deserialize(b) ==
    LET r1 == StakePoolId_deserialize(b, 0) IN
    IF ~r1.ok THEN r1 ELSE Ok(StakePoolRegistration(r1.val), r1.pos)

StakePoolRetirement_serialize(p) == StakePoolId_serialize(p.pool_id)

StakePoolRetirement_deserialize(b) ==
    LET r1 == StakePoolId_deserialize(b, 0) IN
    IF ~r1.ok THEN r1 ELSE Ok(StakePoolRetirement(r1.val), r1.pos)

\* <T as property::Serialize>::serialize for the payload type T of p
Payload_serialize(p) ==
    CASE p.kind = "StakeKeyRegistration" -> StakeKeyRegistration_serialize(p)
      [] p.kind = "StakeKeyDeregistration" -> StakeKeyDeregistration_serialize(p)
      [] p.kind = "StakeDelegation" -> StakeDelegation_serialize(p)
      [] p.kind = "StakePoolRegistration" -> StakePoolRegistration_serialize(p)
      [] p.kind = "StakePoolRetirement" -> StakePoolRetirement_serialize(p)

\* <T as property::Deserialize>::deserialize for the payload type named kind
Payload_deserialize(kind, b) ==
    CASE kind = "StakeKeyRegistration" -> StakeKeyRegistration_deserialize(b)
      [] kind = "StakeKeyDeregistration" -> StakeKeyDeregistration_deserialize(b)
      [] kind = "StakeDelegation" -> StakeDelegation_deserialize(b)
      [] kind = "StakePoolRegistration" -> StakePoolRegistration_deserialize(b)
      [] kind = "StakePoolRetirement" -> StakePoolRetirement_deserialize(b)

\* PrivateKey::serialize_and_sign: the signature of the serialized payload
serialize_and_sign(k, p) == Sign(k, Payload_serialize(p))

Signed(data, sig) == [data |-> data, sig |-> sig]

StakeKeyRegistration_make_certificate(p, k) ==
    [case |-> "StakeKeyRegistration", signed |-> Signed(p, serialize_and_sign(k, p))]

StakeKeyDeregistration_make_certificate(p, k) ==
    [case |-> "StakeKeyDeregistration", signed |-> Signed(p, serialize_and_sign(k, p))]

StakeDelegation_make_certificate(p, k) ==
    [case |-> "StakeDelegation", signed |-> Signed(p, serialize_and_sign(k, p))]

StakePoolRegistration_make_certificate(p, k) ==
    [case |-> "StakePoolRegistration", signed |-> Signed(p, serialize_and_sign(k, p))]

StakePoolRetirement_make_certificate_as_registration(p, k) ==
    [case |-> "StakePoolRegistration", signed |-> Signed(p, serialize_and_sign(k, p))]

StakePoolRetirement_make_certificate(p, k) ==
    [case |-> "StakePoolRetirement", signed |-> Signed(p, serialize_and_sign(k, p))]

\* T::make_certificate for the payload type T of p
make_certificate(p, k) ==
    CASE p.kind = "StakeKeyRegistration" -> StakeKeyRegistration_make_certificate(p, k)
      [] p.kind = "StakeKeyDeregistration" -> StakeKeyDeregistration_make_certificate(p, k)
      [] p.kind = "StakeDelegation" -> StakeDelegation_make_certificate(p, k)
      [] p.kind = "StakePoolRegistration" -> StakePoolRegistration_make_certificate(p, k)
      [] p.kind = "StakePoolRetirement" -> StakePoolRetirement_make_certificate(p, k)

-----------------------------------------------------------------------------
(* Certificate specification: a payload is serialized and deserialized,    *)
(* or signed and wrapped by make_certificate.                              *)

KeyIdVals == {to_public(1), to_public(2), [i \in 1..PUBLIC_KEY_SIZE |-> 255 - i]}

PayloadKinds ==
    {"StakeKeyRegistration", "StakeKeyDeregistration", "StakeDelegation",
     "StakePoolRegistration", "StakePoolRetirement"}

Payloads ==
    {StakeKeyRegistration(k) : k \in KeyIdVals}
        \cup {StakeKeyDeregistration(k) : k \in KeyIdVals}
        \cup {StakeDelegation(k, q) : k \in KeyIdVals, q \in KeyIdVals}
        \cup {StakePoolRegistration(q) : q \in KeyIdVals}
        \cup {StakePoolRetirement(q) : q \in KeyIdVals}

InitCert ==
    /\ op = "init"
    /\ ExtraInit
    /\ cert \in Payloads
    /\ skey \in SecretKeys
    /\ message = NoMessage
    /\ buf = <<>>
    /\ dec = NoResult
    /\ hdr = NoHeader
    /\ wire = <<>>
    /\ vres = "none"
    /\ prov = NoProvenance
    /\ cl = <<0, 0>>
    /\ clres = NoResult
    /\ steps = 0

SerializeCert ==
    /\ op = "init"
    /\ buf' = Payload_serialize(cert)
    /\ op' = "cert_serialize"
    /\ UNCHANGED <<cert, skey, message, dec, hdr, wire, vres, prov, cl, clres, steps, extra>>

DeserializeCert ==
    /\ op = "cert_serialize"
    /\ dec' = Payload_deserialize(cert.kind, buf)
    /\ op' = "cert_deserialize"
    /\ UNCHANGED <<cert, skey, message, buf, hdr, wire, vres, prov, cl, clres, steps, extra>>

MakeCertificate ==
    /\ op = "init"
    /\ message' = make_certificate(cert, skey)
    /\ op' = "make_certificate"
    /\ UNCHANGED <<cert, skey, buf, dec, hdr, wire, vres, prov, cl, clres, steps, extra>>

NextCert ==
    \/ SerializeCert
    \/ DeserializeCert
    \/ MakeCertificate

SpecCert == InitCert /\ [][NextCert]_vars

(* C9: for each of the five certificate payload kinds, deserializing the   *)
(* bytes produced by serializing a payload yields an equal payload, the    *)
(* fields being written and read in the same order (stake_key_id before    *)
(* pool_id for StakeDelegation).                                           *)
C9_CertRoundTrip ==
    /\ op = "cert_deserialize" =>
            (dec.ok /\ dec.val = cert /\ dec.pos = Len(buf))
    /\ (op \in {"cert_serialize", "cert_deserialize"} /\ cert.kind = "StakeDelegation") =>
            buf = cert.stake_key_id \o cert.pool_id

C9_Witness ==
    /\ op = "cert_deserialize"
    /\ cert.kind = "StakeDelegation"
    /\ cert.stake_key_id # cert.pool_id
    /\ dec.ok
    /\ dec.val = cert

(* C10: for every certificate payload p and every private key k,           *)
(* make_certificate(p, k) returns the Message case of the same kind as p,  *)
(* holding a Signed envelope whose data equals p and whose sig is the      *)
(* signature by k over the serialized bytes of p alone: it verifies under  *)
(* the public key of k for exactly those bytes.                            *)
C10_MakeCertificate ==
    op = "make_certificate" =>
        /\ message.case = cert.kind
        /\ message.signed.data = cert
        /\ message.signed.sig = Sign(skey, Payload_serialize(cert))
        /\ verify_slice(message.signed.sig, to_public(skey), Payload_serialize(cert)) = "Success"

C10_Witness ==
    /\ op = "make_certificate"
    /\ cert.kind = "StakePoolRetirement"
    /\ message.case = "StakePoolRetirement"
    /\ message.signed.data = cert

-----------------------------------------------------------------------------
(* Decode specification: the bytes of a header (of any tag and any proof   *)
(* trailer) arrive whole, cut short, or with a malformed VRF proof; they   *)
(* are decoded, and a decoded Header is encoded again.                     *)

\* the headers whose encodings are damaged and decoded: every tag with every
\* proof variant, two sizes and two chain lengths
DecodeHeaders ==
    {Header(c, p) : c \in {k \in Commons :
                              /\ k.block_date = [epoch |-> U32Val(0), slot_id |-> U32Val(1)]
                              /\ k.block_content_hash = RegisteredId
                              /\ k.block_parent_hash = UnregisteredId},
                    p \in Proofs}

InitDecode == InitHeader /\ hdr \in DecodeHeaders

\* the lengths a stream is cut to: inside Common, at its end, inside and at
\* the end of each part of the proof trailers
Cuts == {0, 1, 2, 6, 18, 50, 81, 82, 83, 114, 115, 177, 178, 179, 210, 273}

Truncate(k) ==
    /\ op = "serialize"
    /\ damage = "none"
    /\ k < Len(buf)
    /\ buf' = SubSeq(buf, 1, k)
    /\ damage' = "truncated"
    /\ UNCHANGED <<op, hdr, wire, dec, vres, prov, reenc, peer, ids>>
    /\ UNCHANGED <<cl, clres, steps, cert, skey, message, netvars>>

\* the most significant byte of a scalar of the VRF proof is made non-canonical
CorruptVrf(i) ==
    /\ op = "serialize"
    /\ damage = "none"
    /\ hdr.proof.kind = "GenesisPraos"
    /\ LET at == Len(Common_serialize(hdr.common)) + HASH_SIZE + i
       IN  buf' = [buf EXCEPT ![at] = 16 + (buf[at] % 16)]
    /\ damage' = "vrf"
    /\ UNCHANGED <<op, hdr, wire, dec, vres, prov, reenc, peer, ids>>
    /\ UNCHANGED <<cl, clres, steps, cert, skey, message, netvars>>

\* the decoded Header is serialized again
Reencode ==
    /\ op \in {"read", "deserialize"}
    /\ dec.ok
    /\ reenc' = Header_serialize(dec.val)
    /\ op' = IF op = "read" THEN "reencode_read" ELSE "reencode_deserialize"
    /\ UNCHANGED <<hdr, buf, wire, dec, vres, prov, damage, peer, ids>>
    /\ UNCHANGED <<cl, clres, steps, cert, skey, message, netvars>>

NextDecode ==
    \/ SerializeHeader
    \/ \E k \in Cuts : Truncate(k)
    \/ \E i \in {SIGNATURE_SIZE, VERIFIED_RANDOM_SIZE} : CorruptVrf(i)
    \/ ReadHeader
    \/ ToRaw
    \/ DeserializeHeader
    \/ Reencode

SpecDecode == InitDecode /\ [][NextDecode]_vars

\* the version tag a byte stream starts with
StreamTag(b) == b[1] * 256 + b[2]

(* C11: every header byte sequence that decodes successfully decodes to    *)
(* the proof variant fixed by its version tag (0 to None, 1 to Bft, 2 to   *)
(* GenesisPraos), and re-encoding the decoded Header yields exactly the    *)
(* input bytes, for Header::read and for Header::deserialize alike.        *)
C11_DecodeReencode ==
    /\ (op \in {"read", "deserialize", "reencode_read", "reencode_deserialize"} /\ dec.ok) =>
            \/ StreamTag(buf) = 0 /\ dec.val.proof.kind = "None"
            \/ StreamTag(buf) = 1 /\ dec.val.proof.kind = "Bft"
            \/ StreamTag(buf) = 2 /\ dec.val.proof.kind = "GenesisPraos"
    /\ op \in {"reencode_read", "reencode_deserialize"} => reenc = buf

(* C13: decoding a strict prefix of a valid header encoding fails with an  *)
(* error (a short read) and returns no Header; VRF-proof bytes that fail   *)
(* the well-formedness check make the decode fail with a structural error  *)
(* naming the VRF proof.                                                   *)
C13_TruncatedOrMalformed ==
    /\ (op = "read" /\ ValidHeader(hdr) /\ damage = "truncated") =>
            (~dec.ok /\ dec.err.kind = "NotEnoughBytes")
    /\ (op = "deserialize" /\ ValidHeader(hdr) /\ damage = "truncated") =>
            (~dec.ok /\ dec.err.kind = "InvalidData" /\ dec.err.cause.kind = "NotEnoughBytes")
    /\ (op = "read" /\ ValidHeader(hdr) /\ damage = "vrf") =>
            (~dec.ok /\ dec.err = StructureInvalid("VRF Proof"))
    /\ (op = "deserialize" /\ ValidHeader(hdr) /\ damage = "vrf") =>
            (~dec.ok /\ dec.err = InvalidData(StructureInvalid("VRF Proof")))

C13_Witness ==
    /\ op = "read"
    /\ ValidHeader(hdr)
    /\ damage = "vrf"
    /\ Len(buf) = Len(Header_serialize(hdr))
    /\ ~dec.ok
    /\ dec.err = StructureInvalid("VRF Proof")

-----------------------------------------------------------------------------
(* Identity.  The hash function is idealised as collision-free: the digest *)
(* of a byte string stands for that byte string and no other.              *)

hash_bytes(b) == [blake2b256_of |-> b]

Header_hash_common_only(h) == hash_bytes(Common_serialize(h.common))

\* Header::hash: the hash of the serialized header
Header_hash(h) == hash_bytes(Header_serialize(h))

\* property::Header::id
Header_id(h) == Header_hash(h)

AllHeaders == {Header(c, p) : c \in Commons, p \in Proofs}

\* the headers every header of the model is compared with
BaseHeaders ==
    {h \in AllHeaders :
        /\ h.common.block_content_size = U32Val(0)
        /\ h.common.block_date = [epoch |-> U32Val(0), slot_id |-> U32Val(1)]
        /\ h.common.chain_length = U32Val(1)
        /\ h.common.block_content_hash = RegisteredId
        /\ h.common.block_parent_hash = UnregisteredId}

InitIdentity ==
    /\ op = "init"
    /\ hdr \in BaseHeaders
    /\ peer \in AllHeaders
    /\ ids = NoIds
    /\ NetInit
    /\ damage = "none"
    /\ reenc = <<>>
    /\ buf = <<>>
    /\ wire = <<>>
    /\ dec = NoResult
    /\ vres = "none"
    /\ prov = NoProvenance
    /\ cl = <<0, 0>>
    /\ clres = NoResult
    /\ steps = 0
    /\ cert = NoCert
    /\ skey = 0
    /\ message = NoMessage

\* Header::hash of the header in hand, property::Header::id of both headers
ComputeIds ==
    /\ op = "init"
    /\ ids' = [hash |-> Header_hash(hdr), id |-> Header_id(hdr), peer_id |-> Header_id(peer)]
    /\ op' = "identity"
    /\ UNCHANGED <<hdr, peer, damage, reenc, buf, wire, dec, vres, prov>>
    /\ UNCHANGED <<cl, clres, steps, cert, skey, message, netvars>>

NextIdentity == ComputeIds

SpecIdentity == InitIdentity /\ [][NextIdentity]_vars

\* the proof trailer of the wire format: nothing, key and signature, or
\* identifier, VRF proof and signature
ProofTrailer(h) ==
    CASE h.proof.kind = "None" -> <<>>
      [] h.proof.kind = "Bft" -> h.proof.leader_id \o h.proof.signature
      [] h.proof.kind = "GenesisPraos" ->
            h.proof.genesis_praos_id \o h.proof.vrf_proof \o h.proof.kes_proof

(* C12: Header::hash and property::Header::id both return the hash of the  *)
(* full serialization of the Header (Common followed by the proof          *)
(* trailer); equal Headers get equal identities, and two Headers that      *)
(* differ as structured values have different serialized bytes and, the    *)
(* hash being collision-free, different identities.                        *)
C12_Identity ==
    op = "identity" =>
        /\ ids.hash = hash_bytes(Common_serialize(hdr.common) \o ProofTrailer(hdr))
        /\ ids.id = ids.hash
        /\ hdr = peer => ids.peer_id = ids.id
        /\ hdr # peer =>
                /\ Header_serialize(hdr) # Header_serialize(peer)
                /\ ids.peer_id # ids.id

C12_Witness ==
    /\ op = "identity"
    /\ hdr # peer
    /\ hdr.common = peer.common
    /\ hdr.proof.kind = "Bft"
    /\ peer.proof.kind = "Bft"
    /\ ids.peer_id # ids.id

-----------------------------------------------------------------------------
(* The network broadcast loop (network::run).  One task folds over         *)
(* subscription_msg_box; connection tasks share the subscriptions map      *)
(* through GlobalState and insert into it under the write lock.            *)

MaxSubs == 3

MaxMsgs == 2

\* SubscriptionId(Connection, LightWeightConnectionId)
SubscriptionId(connection, lwcid) == <<connection, lwcid>>

SubscriptionIdOf(i) ==
    SubscriptionId(IF i % 2 = 1 THEN "tcp:peer-a" ELSE "tcp:peer-b", 1024 + (i \div 2))

SubscriptionIds == {SubscriptionIdOf(i) : i \in 1..MaxSubs}

\* the sending end of the channel created for a subscription
Sender(id) == [channel |-> id]

\* the variant of NetworkBroadcastMsg the n-th published message has
BroadcastKindOf(n) ==
    CASE n % 3 = 1 -> "Block"
      [] n % 3 = 2 -> "Header"
      [] OTHER -> "Transaction"

BroadcastTask == <<"broadcast", "", 0>>

ConnectionTask(id) == <<"connection", id[1], id[2]>>

\* the Message built for one subscriber from the broadcast message
Message_Bytes(lwcid, bytes) == [lwcid |-> lwcid, bytes |-> bytes]

encode_for(identifier, msg) ==
    CASE msg.kind = "Block" -> Message_Bytes(identifier[2], <<"MsgBlock", msg.body>>)
      [] msg.kind = "Header" -> Message_Bytes(identifier[2], <<"MsgHeaders", <<msg.body>>>>)
      [] msg.kind = "Transaction" -> Message_Bytes(identifier[2], <<"cbor", msg.body>>)

\* HashMap::insert and HashMap::remove
HashMap_insert(m, k, v) == [x \in DOMAIN m \cup {k} |-> IF x = k THEN v ELSE m[x]]

HashMap_remove(m, k) == [x \in DOMAIN m \ {k} |-> m[x]]

\* the orders in which iter() may visit the entries of the map
IterationOrders(m) ==
    LET n == Cardinality(DOMAIN m)
    IN  {[i \in 1..n |-> <<f[i], m[f[i]]>>] :
            f \in {g \in [1..n -> DOMAIN m] : \A i, j \in 1..n : g[i] = g[j] => i = j}}

LockFree == lock.readers = {} /\ lock.writers = {}

NetUnchanged == UNCHANGED <<op, hdr, buf, wire, dec, vres, prov, cl, clres, steps,
                            cert, skey, message, damage, reenc, peer, ids>>

InitNet ==
    /\ NetInit
    /\ op = "init"
    /\ hdr = NoHeader
    /\ peer = NoHeader
    /\ ids = NoIds
    /\ damage = "none"
    /\ reenc = <<>>
    /\ buf = <<>>
    /\ wire = <<>>
    /\ dec = NoResult
    /\ vres = "none"
    /\ prov = NoProvenance
    /\ cl = <<0, 0>>
    /\ clres = NoResult
    /\ steps = 0
    /\ cert = NoCert
    /\ skey = 0
    /\ message = NoMessage

\* a producer puts a broadcast message into subscription_msg_box
Publish ==
    /\ hist.published < MaxMsgs
    /\ msg_box' = Append(msg_box, [kind |-> BroadcastKindOf(hist.published + 1),
                                   body |-> hist.published + 1])
    /\ hist' = [hist EXCEPT !.published = @ + 1]
    /\ UNCHANGED <<subscriptions, rx_open, inbox, lock, task>>
    /\ NetUnchanged

\* a connection task asks for the write lock to register a subscription
SubscribeLock(id) ==
    /\ id \notin hist.added
    /\ ConnectionTask(id) \notin lock.writers
    /\ LockFree
    /\ lock' = [lock EXCEPT !.writers = {ConnectionTask(id)}]
    /\ UNCHANGED <<subscriptions, rx_open, inbox, msg_box, task, hist>>
    /\ NetUnchanged

\* ... creates the channel, inserts its sending end and drops the guard
SubscribeInsert(id) ==
    /\ lock.writers = {ConnectionTask(id)}
    /\ subscriptions' = HashMap_insert(subscriptions, id, Sender(id))
    /\ rx_open' = rx_open \cup {id}
    /\ inbox' = HashMap_insert(inbox, id, <<>>)
    /\ lock' = [lock EXCEPT !.writers = {}]
    /\ hist' = [hist EXCEPT !.added = @ \cup {id}]
    /\ UNCHANGED <<msg_box, task>>
    /\ NetUnchanged

\* the receiving end of a subscriber's channel is dropped
Disconnect(id) ==
    /\ id \in rx_open
    /\ rx_open' = rx_open \ {id}
    /\ UNCHANGED <<subscriptions, inbox, lock, msg_box, task, hist>>
    /\ NetUnchanged

\* fold takes the next message of subscription_msg_box
Receive ==
    /\ task.pc = "idle"
    /\ msg_box # <<>>
    /\ task' = [pc |-> "read", msg |-> Head(msg_box), col |-> <<>>, at |-> 0]
    /\ msg_box' = Tail(msg_box)
    /\ UNCHANGED <<subscriptions, rx_open, inbox, lock, hist>>
    /\ NetUnchanged

\* subscriptions_clone.read().unwrap()
ReadLock ==
    /\ task.pc = "read"
    /\ lock.writers = {}
    /\ lock' = [lock EXCEPT !.readers = @ \cup {BroadcastTask}]
    /\ task' = [task EXCEPT !.pc = "collect"]
    /\ UNCHANGED <<subscriptions, rx_open, inbox, msg_box, hist>>
    /\ NetUnchanged


Collect_keep_guard(order) ==
    /\ task.pc = "collect"
    /\ order \in IterationOrders(subscriptions)
    /\ task' = [task EXCEPT !.pc = "deliver", !.col = order, !.at = 1]
    /\ UNCHANGED <<subscriptions, rx_open, inbox, lock, msg_box, hist>>
    /\ NetUnchanged

\* .iter().map(|(k, v)| (k.clone(), v.clone())).collect(); the read guard is
\* a temporary of the let statement and is dropped at its end
Collect(order) ==
    /\ task.pc = "collect"
    /\ order \in IterationOrders(subscriptions)
    /\ task' = [task EXCEPT !.pc = "deliver", !.col = order, !.at = 1]
    /\ lock' = [lock EXCEPT !.readers = @ \ {BroadcastTask}]
    /\ UNCHANGED <<subscriptions, rx_open, inbox, msg_box, hist>>
    /\ NetUnchanged

\* the for_each closure on the next (identifier, sink) of the snapshot:
\* unbounded_send fails when the receiving end is gone
SendOne ==
    /\ task.pc = "deliver"
    /\ task.at <= Len(task.col)
    /\ LET identifier == task.col[task.at][1]
           sink == task.col[task.at][2]
       IN  IF sink.channel \in rx_open
           THEN /\ inbox' = [inbox EXCEPT ![sink.channel] =
                                Append(@, encode_for(identifier, task.msg))]
                /\ task' = [task EXCEPT !.at = @ + 1]
                /\ hist' = hist
           ELSE /\ inbox' = inbox
                /\ task' = [task EXCEPT !.pc = "remove"]
                /\ hist' = [hist EXCEPT !.failed = @ \cup {identifier}]
    /\ UNCHANGED <<subscriptions, rx_open, lock, msg_box>>
    /\ NetUnchanged

\* for_each has visited the whole snapshot: the fold goes on to the next message
Finish ==
    /\ task.pc = "deliver"
    /\ task.at > Len(task.col)
    /\ task' = [task EXCEPT !.pc = "idle"]
    /\ UNCHANGED <<subscriptions, rx_open, inbox, lock, msg_box, hist>>
    /\ NetUnchanged

RemoveFailed_whole_snapshot ==
    /\ task.pc = "remove"
    /\ LockFree
    /\ LET identifier == task.col[task.at][1]
       IN  /\ subscriptions' = [x \in DOMAIN subscriptions \
                                      {task.col[i][1] : i \in 1..Len(task.col)}
                                    |-> subscriptions[x]]
           /\ hist' = [hist EXCEPT !.removed = @ \cup {identifier}]
    /\ task' = [task EXCEPT !.pc = "terminated"]
    /\ UNCHANGED <<rx_open, inbox, lock, msg_box>>
    /\ NetUnchanged

\* the map_err closure: write().unwrap(), remove(&identifier), guard dropped.
\* The closure returns (), so the send's result is Err(()): for_each stops at
\* this first error, the fold resolves to the error, and so does the join3
\* that tokio::run drives.
RemoveFailed ==
    /\ task.pc = "remove"
    /\ LockFree
    /\ LET identifier == task.col[task.at][1]
       IN  /\ subscriptions' = HashMap_remove(subscriptions, identifier)
           /\ hist' = [hist EXCEPT !.removed = @ \cup {identifier}]
    /\ task' = [task EXCEPT !.pc = "terminated"]
    /\ UNCHANGED <<rx_open, inbox, lock, msg_box>>
    /\ NetUnchanged

NextNet ==
    \/ Publish
    \/ \E id \in SubscriptionIds : SubscribeLock(id)
    \/ \E id \in SubscriptionIds : SubscribeInsert(id)
    \/ \E id \in SubscriptionIds : Disconnect(id)
    \/ Receive
    \/ ReadLock
    \/ \E order \in IterationOrders(subscriptions) : Collect(order)
    \/ SendOne
    \/ Finish
    \/ RemoveFailed

SpecNet == InitNet /\ [][NextNet]_vars

\* the identifiers of the snapshot the broadcast task is working through
SnapshotIds == {task.col[i][1] : i \in 1..Len(task.col)}

(* C14: when a send fails because the subscriber's channel is closed,      *)
(* exactly that subscriber's entry is removed from the shared map; the     *)
(* entries of subscribers whose send succeeded and the entries added by    *)
(* other tasks meanwhile stay in the map.                                  *)
C14_OnlyFailedRemoved ==
    /\ hist.removed \subseteq hist.failed
    /\ task.pc # "remove" => hist.removed = hist.failed
    /\ DOMAIN subscriptions = hist.added \ hist.removed
    /\ \A id \in DOMAIN subscriptions : subscriptions[id] = Sender(id)

C14_Witness ==
    /\ task.pc = "terminated"
    /\ hist.removed # {}
    /\ \E id \in DOMAIN subscriptions \cap SnapshotIds :
            encode_for(id, task.msg) \in {inbox[id][i] : i \in 1..Len(inbox[id])}
    /\ DOMAIN subscriptions \ SnapshotIds # {}

(* C15: a failed send to one subscriber does not stop the broadcast: every *)
(* other subscriber of the snapshot taken for that message whose channel   *)
(* is open still receives the message, and the loop goes on to process     *)
(* the later messages of subscription_msg_box.                             *)
C15_FailedSendDoesNotStop ==
    /\ task.pc # "terminated"
    /\ task.pc \in {"idle", "terminated"} =>
            \A id \in SnapshotIds \cap rx_open :
                encode_for(id, task.msg) \in {inbox[id][i] : i \in 1..Len(inbox[id])}

(* C16: the read lock on the map is held only while the snapshot is built  *)
(* and is released before any message is sent; the write lock that removes *)
(* a failed subscription is never requested while the broadcast task still *)
(* holds the read lock, and the broadcast task does not keep connection    *)
(* tasks from adding subscriptions while a message is being delivered.     *)
C16_ReadLockOnlyForSnapshot ==
    /\ BroadcastTask \in lock.readers => task.pc = "collect"
    /\ task.pc \in {"deliver", "remove"} => BroadcastTask \notin lock.readers
    /\ BroadcastTask \notin lock.writers
    /\ (task.pc = "deliver" /\ lock.writers = {}) => LockFree

C16_Witness ==
    /\ task.pc = "deliver"
    /\ task.at > 1
    /\ DOMAIN subscriptions \ SnapshotIds # {}
    /\ BroadcastTask \notin lock.readers

=============================================================================
